---- MODULE Spec2Model ----
(***************************************************************************)
(* A model of the receipt processor: the scoring pipeline of               *)
(* internal/app/app.go, the configuration loader of internal/config and    *)
(* the Redis store adapter of internal/db/redis.go, with the backend       *)
(* (go-redis and Redis) as the environment.                                *)
(*                                                                         *)
(* Strings are sequences of one-character strings.  A parsed amount is an  *)
(* exact decimal [num, scale] (value num / 10^scale) while float64 holds   *)
(* it apart from its neighbours, and "huge" from 10^20 on.  A time.Duration*)
(* is a 64-bit two's complement word, kept as 8 little-endian bytes, so    *)
(* that multiplication wraps as it does in Go.  A score is an int, 64 bits *)
(* wide: [hi, lo] stands for hi * 2^63 + lo modulo 2^64.                   *)
(***************************************************************************)
EXTENDS Integers, Sequences, FiniteSets, TLC

\* ------------------------------------------------------------------ bounds

\* Number of HTTP requests in one behaviour.
MaxReq == 2
\* Longest currency string given to parseDollarAsStringInput on its own.
MaxLen == 4
\* Most line items of a receipt whose items are permuted.
MaxItems == 3

\* ------------------------------------------------- 64-bit durations (int64)

Limbs == 1..8

\* The int64 with value n (|n| < 2^31), as 8 bytes, two's complement.
ToInt64(n) ==
    [i \in Limbs |->
        IF i = 1 THEN n % 256
        ELSE IF i = 2 THEN (n \div 256) % 256
        ELSE IF i = 3 THEN (n \div 65536) % 256
        ELSE IF i = 4 THEN (n \div 16777216) % 256
        ELSE IF n < 0 THEN 255 ELSE 0]

\* Column k of the schoolbook product: the sum of a[i] * b[j], i + j = k + 1.
RECURSIVE ColumnSum(_, _, _, _)
ColumnSum(a, b, k, i) ==
    IF i > k THEN 0 ELSE a[i] * b[k + 1 - i] + ColumnSum(a, b, k, i + 1)

RECURSIVE MulFrom(_, _, _, _)
MulFrom(a, b, k, carry) ==
    IF k > 8 THEN << >>
    ELSE LET s == ColumnSum(a, b, k, 1) + carry
         IN  <<s % 256>> \o MulFrom(a, b, k + 1, s \div 256)

\* Go's a * b on int64: the low 64 bits of the product.
Mul64(a, b) == LET p == MulFrom(a, b, 1, 0) IN [i \in Limbs |-> p[i]]

IsNegative64(a) == a[8] >= 128
IsZero64(a) == \A i \in Limbs : a[i] = 0
IsPositive64(a) == ~IsNegative64(a) /\ ~IsZero64(a)

\* a < b for two non-negative int64.
RECURSIVE LessFrom(_, _, _)
LessFrom(a, b, i) ==
    IF i = 0 THEN FALSE
    ELSE IF a[i] # b[i] THEN a[i] < b[i]
    ELSE LessFrom(a, b, i - 1)

Less64(a, b) == LessFrom(a, b, 8)

\* time.Second, in nanoseconds.
Second == ToInt64(1000000000)

\* ----------------------------------------------------------- configuration

\* REDIS_TTL_IN_S and MAX_DB_CONN_RETRIES in docker-compose.yml.
DefaultTTL == 600
DefaultRetries == 3

\* REDIS_TTL_IN_S values the process may be started with: a second, ten
\* minutes, and some four days and a half.
TTLValues == {1, DefaultTTL, 408208}

\* MAX_DB_CONN_RETRIES values the process may be started with; strconv.Atoi
\* accepts zero and negative numbers.
RetryValues == (-1)..DefaultRetries

\* config.Load: the Config built from the environment.  RedisTTLInSec is a
\* time.Duration, already multiplied by time.Second.
Load(redisTTLInSec, maxDBConnRetries) ==
    [RedisTTLInSec    |-> Mul64(Second, ToInt64(redisTTLInSec)),
     MaxDBConnRetries |-> maxDBConnRetries,
     ttlSeconds       |-> redisTTLInSec]

\* The expiration SetKey passes to client.Set.
SetKeyExpiration(config) == Mul64(Second, config.RedisTTLInSec)

\* The configured TTL as a duration: REDIS_TTL_IN_S seconds.
ConfiguredTTL(config) == Mul64(Second, ToInt64(config.ttlSeconds))

\* ------------------------------------------------------------------ strings

AsciiDigits == {"0", "1", "2", "3", "4", "5", "6", "7", "8", "9"}

\* A decimal digit outside ASCII (ARABIC-INDIC DIGIT THREE), two bytes in UTF-8.
ArabicThree == "U+0663"

\* unicode.IsDigit
IsDigit(c) == c \in AsciiDigits \cup {ArabicThree}

Letters == {"a", "T", "x", "M"}

\* unicode.IsLetter
IsLetter(c) == c \in Letters

\* The UTF-8 length of a character.
ByteLen(c) == IF c = ArabicThree THEN 2 ELSE 1

RECURSIVE ByteLenOf(_)
ByteLenOf(s) == IF s = << >> THEN 0 ELSE ByteLen(Head(s)) + ByteLenOf(Tail(s))

\* strings.ReplaceAll(s, ",", "")
RECURSIVE RemoveCommas(_)
RemoveCommas(s) ==
    IF s = << >> THEN << >>
    ELSE IF Head(s) = "," THEN RemoveCommas(Tail(s))
    ELSE <<Head(s)>> \o RemoveCommas(Tail(s))

\* strings.Trim(s, " ")
RECURSIVE TrimLeft(_)
TrimLeft(s) == IF s # << >> /\ Head(s) = " " THEN TrimLeft(Tail(s)) ELSE s

RECURSIVE TrimRight(_)
TrimRight(s) ==
    IF s # << >> /\ s[Len(s)] = " " THEN TrimRight(SubSeq(s, 1, Len(s) - 1)) ELSE s

Trim(s) == TrimRight(TrimLeft(s))

DigitValue(c) ==
    CASE c = "0" -> 0 [] c = "1" -> 1 [] c = "2" -> 2 [] c = "3" -> 3 [] c = "4" -> 4
      [] c = "5" -> 5 [] c = "6" -> 6 [] c = "7" -> 7 [] c = "8" -> 8 [] c = "9" -> 9

DigitChar(d) ==
    CASE d = 0 -> "0" [] d = 1 -> "1" [] d = 2 -> "2" [] d = 3 -> "3" [] d = 4 -> "4"
      [] d = 5 -> "5" [] d = 6 -> "6" [] d = 7 -> "7" [] d = 8 -> "8" [] d = 9 -> "9"

RECURSIVE Pow10(_)
Pow10(n) == IF n = 0 THEN 1 ELSE 10 * Pow10(n - 1)

\* The number written by a string of ASCII digits (0 for the empty string).
RECURSIVE DigitsValue(_)
DigitsValue(s) ==
    IF s = << >> THEN 0
    ELSE 10 * DigitsValue(SubSeq(s, 1, Len(s) - 1)) + DigitValue(s[Len(s)])

\* strconv.Itoa
RECURSIVE NatDigits(_)
NatDigits(n) == IF n < 10 THEN <<DigitChar(n)>> ELSE NatDigits(n \div 10) \o <<DigitChar(n % 10)>>

Itoa(n) == IF n < 0 THEN <<"-">> \o NatDigits(-n) ELSE NatDigits(n)

\* strconv.Atoi: an optional sign and one or more ASCII digits.
Atoi(s) ==
    LET body == IF s # << >> /\ Head(s) \in {"-", "+"} THEN Tail(s) ELSE s
    IN  IF body = << >> \/ \E i \in 1..Len(body) : body[i] \notin AsciiDigits
        THEN [err |-> TRUE, n |-> 0]
        ELSE [err |-> FALSE,
              n   |-> IF s[1] = "-" THEN -DigitsValue(body) ELSE DigitsValue(body)]

\* s without its leading zeros.
RECURSIVE StripZeros(_)
StripZeros(s) == IF s # << >> /\ Head(s) = "0" THEN StripZeros(Tail(s)) ELSE s

\* The digits of s before its decimal point, without leading zeros.
IntegerDigits(s) ==
    LET dots == {i \in 1..Len(s) : s[i] = "."}
    IN  StripZeros(IF dots = {} THEN s ELSE SubSeq(s, 1, (CHOOSE i \in dots : TRUE) - 1))

\* An amount of this many integer digits is 10^20 or more: as a float64 it is a
\* whole number (it is above 2^53), and a fifth of it is above 2^63, the range
\* of int.  The amounts given to ParseFloat here have at most 9 digits in all,
\* or at least this many integer digits.
HugeDigits == 21

\* strconv.ParseFloat(s, 64) on a string made of digits and decimal points:
\* digits, then optionally a point and digits, with at least one digit in all.
\* The float64 is the exact decimal num / 10^scale for an amount of at most 9
\* digits (float64 keeps such amounts apart, and holds whole numbers and
\* multiples of 0.25 exactly); from 10^20 on it is a whole number, `huge`.
ParseFloat(s) ==
    LET dots == {i \in 1..Len(s) : s[i] = "."}
        bad  == \E i \in 1..Len(s) : s[i] \notin AsciiDigits \cup {"."}
    IN  IF bad \/ Cardinality(dots) > 1 \/ Len(s) - Cardinality(dots) = 0
        THEN [err |-> TRUE, huge |-> FALSE, num |-> 0, scale |-> 0]
        ELSE IF Len(IntegerDigits(s)) >= HugeDigits
        THEN [err |-> FALSE, huge |-> TRUE, num |-> 0, scale |-> 0]
        ELSE IF dots = {}
        THEN [err |-> FALSE, huge |-> FALSE, num |-> DigitsValue(s), scale |-> 0]
        ELSE LET p == CHOOSE i \in dots : TRUE
             IN  [err   |-> FALSE,
                  huge  |-> FALSE,
                  num   |-> DigitsValue(SubSeq(s, 1, p - 1) \o SubSeq(s, p + 1, Len(s))),
                  scale |-> Len(s) - p]

\* ------------------------------------------------------------ field parsers

\* The loop of parseDollarAsStringInput from character index i on: "char" for an
\* invalid character, "value" for a decimal point not followed by exactly two
\* bytes, "" when the loop ends.  pos is the byte offset of character i.
RECURSIVE DollarLoop(_, _, _)
DollarLoop(amt, i, pos) ==
    IF i > Len(amt) THEN ""
    ELSE IF ~IsDigit(amt[i]) /\ amt[i] # "." THEN "char"
    ELSE IF amt[i] = "." /\ ByteLenOf(amt) - pos - 1 # 2 THEN "value"
    ELSE DollarLoop(amt, i + 1, pos + ByteLen(amt[i]))

parseDollarAsStringInput(input) ==
    LET amt  == RemoveCommas(input)
        loop == DollarLoop(amt, 1, 0)
        f    == ParseFloat(amt)
    IN  IF loop # "" THEN [err |-> loop, huge |-> FALSE, num |-> 0, scale |-> 0]
        ELSE IF f.err THEN [err |-> "float", huge |-> FALSE, num |-> 0, scale |-> 0]
        ELSE [err |-> "", huge |-> f.huge, num |-> f.num, scale |-> f.scale]

\* The current moment, time.Now(): a day of the month and a minute of that day
\* (seconds within the minute do not change any comparison with a parsed
\* instant, which has none).
NowDay == 15
NowMinute == 870

\* A purchaseDate string: one that time.Parse("2006-01-02", ...) rejects, or
\* the date of day d of the current month.
BadDate == [valid |-> FALSE, day |-> 0]
Date(d) == [valid |-> TRUE, day |-> d]

\* A purchaseTime string: one that time.Parse rejects, or the time of minute m
\* of the day (m = 60 * hour + minute).
BadTime == [valid |-> FALSE, minute |-> 0]
Time(m) == [valid |-> TRUE, minute |-> m]

\* t.After(time.Now()) taking the current minute for a later one.
AfterNowInclusive(d, m) == d > NowDay \/ (d = NowDay /\ m >= NowMinute)

\* t.After(time.Now()) for the instant at minute m of day d.
AfterNow(d, m) == d > NowDay \/ (d = NowDay /\ m > NowMinute)

parseDateAsStringInput(dateString) ==
    IF ~dateString.valid THEN [err |-> "parse", day |-> -1]
    ELSE IF AfterNow(dateString.day, 0) THEN [err |-> "future", day |-> -1]
    ELSE [err |-> "", day |-> dateString.day]

parseTimeAsStringInput(timeString, dateString) ==
    IF ~dateString.valid \/ ~timeString.valid
    THEN [err |-> "parse", hour |-> 0, minute |-> 0]
    ELSE IF AfterNow(dateString.day, timeString.minute)
    THEN [err |-> "future", hour |-> 0, minute |-> 0]
    ELSE [err    |-> "",
          hour   |-> timeString.minute \div 60,
          minute |-> timeString.minute % 60]

\* ---------------------------------------------------------------- the int

\* An int (64 bits) is [hi, lo], standing for hi * 2^63 + lo modulo 2^64, with
\* hi in {0, 1} and lo small: as a signed number it is lo when hi = 0,
\* lo - 2^63 when hi = 1 and lo >= 0, and 2^63 + lo when hi = 1 and lo < 0.
IntOf(n) == [hi |-> 0, lo |-> n]

\* a + b on int: the sum wraps around.
Plus(a, b) == [hi |-> (a.hi + b.hi) % 2, lo |-> a.lo + b.lo]

IsNegativeInt(a) == IF a.hi = 0 THEN a.lo < 0 ELSE a.lo >= 0

\* The architectures the image is built for: `go build` targets its host.
GoArchs == {"amd64", "arm64"}

VARIABLE goarch   \* the architecture the running binary was built for

\* int(f) for a float64 f of 2^63 or more: the language leaves the value to the
\* implementation.  amd64 gives -2^63 (CVTTSD2SQ), arm64 gives 2^63 - 1 (FCVTZS).
IntOutOfRange(arch) == IF arch = "amd64" THEN [hi |-> 1, lo |-> 0] ELSE [hi |-> 1, lo |-> -1]

\* 2^63 = 9223372036854775808, as its first ten digits and its last nine.
TwoTo63High == <<"9", "2", "2", "3", "3", "7", "2", "0", "3", "6">>
TwoTo63Low == 854775808

\* n written with nine digits.
PadNine(n) == [i \in 1..9 |-> DigitChar((n \div Pow10(9 - i)) % 10)]

\* strconv.Itoa of an int.
ItoaInt(a) ==
    IF a.hi = 0 THEN Itoa(a.lo)
    ELSE IF a.lo >= 0 THEN <<"-">> \o TwoTo63High \o PadNine(TwoTo63Low - a.lo)
    ELSE TwoTo63High \o PadNine(TwoTo63Low + a.lo)

\* ------------------------------------------------------------ scoring rules

RECURSIVE calculateRetailerPoints(_)
calculateRetailerPoints(retailer) ==
    IF retailer = << >> THEN 0
    ELSE (IF IsLetter(Head(retailer)) \/ IsDigit(Head(retailer)) THEN 1 ELSE 0)
         + calculateRetailerPoints(Tail(retailer))

\* f == math.Floor(f) for the decimal f.
IsWhole(num, scale) == num % Pow10(scale) = 0

\* calculateReceiptTotalPoints giving the 25 points to the whole totals only.
calculateReceiptTotalPointsWholeOnly(total) ==
    LET f == parseDollarAsStringInput(total)
    IN  IF f.err # "" THEN [err |-> f.err, points |-> 0]
        ELSE [err    |-> "",
              points |-> (IF f.huge \/ IsWhole(f.num, f.scale) THEN 50 ELSE 0)
                         + (IF f.huge \/ IsWhole(f.num, f.scale) THEN 25 ELSE 0)]

calculateReceiptTotalPoints(total) ==
    LET f == parseDollarAsStringInput(total)
    IN  IF f.err # "" THEN [err |-> f.err, points |-> 0]
        ELSE [err    |-> "",
              points |-> (IF f.huge \/ IsWhole(f.num, f.scale) THEN 50 ELSE 0)
                         + (IF f.huge \/ IsWhole(4 * f.num, f.scale) THEN 25 ELSE 0)]

\* math.Ceil(f * 0.2) for the decimal f.  In float64 the product of such an
\* amount and 0.2 is a whole number only for multiples of 5.00, where it is
\* exact, so the ceiling is that of the exact product.
CeilFifth(num, scale) ==
    LET d == 5 * Pow10(scale) IN (num + d - 1) \div d

\* int(math.Ceil(f * 0.2)): for a huge f the product is 2^63 or more.
IntCeilFifth(f) ==
    IF f.huge THEN IntOutOfRange(goarch) ELSE IntOf(CeilFifth(f.num, f.scale))

\* The loop of calculatePointsFromItems leaving the loop, instead of going on to
\* the next item, at an item whose price does not parse.
RECURSIVE ItemsLoopBreak(_, _)
ItemsLoopBreak(items, i) ==
    IF i > Len(items) THEN IntOf(0)
    ELSE LET trimmed == Trim(items[i].ShortDescription)
             f       == parseDollarAsStringInput(items[i].Price)
         IN  IF ByteLenOf(trimmed) % 3 # 0 THEN ItemsLoopBreak(items, i + 1)
             ELSE IF f.err # "" THEN IntOf(0)
             ELSE Plus(IntCeilFifth(f), ItemsLoopBreak(items, i + 1))

\* The loop of calculatePointsFromItems, from item i on.
RECURSIVE ItemsLoop(_, _)
ItemsLoop(items, i) ==
    IF i > Len(items) THEN IntOf(0)
    ELSE LET trimmed == Trim(items[i].ShortDescription)
             f       == parseDollarAsStringInput(items[i].Price)
         IN  Plus(IF ByteLenOf(trimmed) % 3 = 0 /\ f.err = ""
                  THEN IntCeilFifth(f) ELSE IntOf(0),
                  ItemsLoop(items, i + 1))

calculatePointsFromItems(items) == ItemsLoop(items, 1)

calculatePurchaseDatePoints(date) ==
    LET d == parseDateAsStringInput(date)
    IN  IF d.err # "" THEN [err |-> d.err, points |-> 0]
        ELSE [err |-> "", points |-> IF d.day % 2 # 0 THEN 6 ELSE 0]

\* calculatePurchaseTimePoints with 14:00 inside the window.
calculatePurchaseTimePointsFromTwo(timeString, dateString) ==
    LET t    == parseTimeAsStringInput(timeString, dateString)
        hhmm == t.hour * 100 + t.minute
    IN  IF t.err # "" THEN [err |-> t.err, points |-> 0]
        ELSE [err |-> "", points |-> IF hhmm >= 1400 /\ hhmm < 1600 THEN 10 ELSE 0]

calculatePurchaseTimePoints(timeString, dateString) ==
    LET t    == parseTimeAsStringInput(timeString, dateString)
        hhmm == t.hour * 100 + t.minute
    IN  IF t.err # "" THEN [err |-> t.err, points |-> 0]
        ELSE [err |-> "", points |-> IF hhmm > 1400 /\ hhmm < 1600 THEN 10 ELSE 0]

\* The scoring part of ProcessReceiptHandler with the date checked before the
\* total.
ScoreReceiptDateFirst(rec) ==
    LET retailer == calculateRetailerPoints(rec.Retailer)
        total    == calculateReceiptTotalPoints(rec.Total)
        pairs    == (Len(rec.Items) \div 2) * 5
        items    == calculatePointsFromItems(rec.Items)
        date     == calculatePurchaseDatePoints(rec.PurchaseDate)
        time     == calculatePurchaseTimePoints(rec.PurchaseTime, rec.PurchaseDate)
    IN  IF date.err # ""
        THEN [failed |-> "date", evaluated |-> <<"retailer", "date">>, points |-> IntOf(0)]
        ELSE IF total.err # ""
        THEN [failed    |-> "total",
              evaluated |-> <<"retailer", "date", "total">>,
              points    |-> IntOf(0)]
        ELSE IF time.err # ""
        THEN [failed    |-> "time",
              evaluated |-> <<"retailer", "date", "total", "pairs", "items", "time">>,
              points    |-> IntOf(0)]
        ELSE [failed    |-> "",
              evaluated |-> <<"retailer", "date", "total", "pairs", "items", "time">>,
              points    |-> Plus(IntOf(retailer + total.points + pairs),
                                 Plus(items, IntOf(date.points + time.points)))]

\* The scoring part of ProcessReceiptHandler: the rules in the handler's order,
\* with the rules it evaluated, the rule that failed ("" for none) and the sum.
ScoreReceipt(rec) ==
    LET retailer == calculateRetailerPoints(rec.Retailer)
        total    == calculateReceiptTotalPoints(rec.Total)
        pairs    == (Len(rec.Items) \div 2) * 5
        items    == calculatePointsFromItems(rec.Items)
        date     == calculatePurchaseDatePoints(rec.PurchaseDate)
        time     == calculatePurchaseTimePoints(rec.PurchaseTime, rec.PurchaseDate)
    IN  IF total.err # ""
        THEN [failed |-> "total", evaluated |-> <<"retailer", "total">>, points |-> IntOf(0)]
        ELSE IF date.err # ""
        THEN [failed    |-> "date",
              evaluated |-> <<"retailer", "total", "pairs", "items", "date">>,
              points    |-> IntOf(0)]
        ELSE IF time.err # ""
        THEN [failed    |-> "time",
              evaluated |-> <<"retailer", "total", "pairs", "items", "date", "time">>,
              points    |-> IntOf(0)]
        ELSE [failed    |-> "",
              evaluated |-> <<"retailer", "total", "pairs", "items", "date", "time">>,
              points    |-> Plus(IntOf(retailer + total.points + pairs),
                                 Plus(items, IntOf(date.points + time.points)))]

\* isValidUUIDv4 on a path identifier: <<v, n>> is the UUID of version v with
\* random bits n, and NotAUUID a string that uuid.Parse rejects.
NotAUUID == <<0, 0>>

\* isValidUUIDv4 without the test of the version.
isValidUUIDAnyVersion(s) == s # NotAUUID

isValidUUIDv4(s) == s # NotAUUID /\ s[1] = 4

\* -------------------------------------------------------------------- state

VARIABLES
    config,   \* the Config the process was started with (config.Load)
    req,      \* the HTTP requests: for each, its handler's position and locals
    store,    \* the backend: the record, if any, under each key
    nextId,   \* the number behind the next uuid.New()
    inputs,   \* the request bodies clients submit
    clients,  \* how many requests arrive
    arg,      \* the argument of a pure function applied on its own
    out       \* and its result

vars == <<config, goarch, req, store, nextId, inputs, clients, arg, out>>

Req == 1..MaxReq

\* The keys of the backend: the random bits of the version-4 UUIDs in use.
Keys == 1..MaxReq

\* ------------------------------------------------------------------- inputs

Item(desc, price) == [ShortDescription |-> desc, Price |-> price]

Receipt(retailer, date, time, items, total) ==
    [Decodes |-> TRUE, Retailer |-> retailer, PurchaseDate |-> date,
     PurchaseTime |-> time, Items |-> items, Total |-> total]

\* A request body that json.Decode rejects.
Undecodable ==
    [Decodes |-> FALSE, Retailer |-> << >>, PurchaseDate |-> BadDate,
     PurchaseTime |-> BadTime, Items |-> << >>, Total |-> << >>]

Gatorade == Item(<<"a", "a", "a">>, <<"2", ".", "2", "5">>)
Pizza    == Item(<<" ", "x", "x", " ">>, <<"1", "2", ".", "0", "0">>)

\* 10^20, in digits, and an item of that price.
TenTo20 == <<"1">> \o [i \in 1..20 |-> "0"]
Fortune == Item(<<"a", "a", "a">>, TenTo20 \o <<".", "0", "0">>)

\* The receipts submitted while the store adapter is exercised.
StoreReceipts ==
    {Receipt(<<"T", "a">>, Date(1), Time(781), <<Gatorade, Pizza>>, <<"9", ".", "0", "0">>),
     Receipt(<<"M">>, Date(2), Time(870), << >>, <<"1", ".", "5">>)}

\* The receipts submitted while the pipeline is exercised: every combination of
\* a valid or invalid total, date and time.
PipelineReceipts ==
    {Receipt(<<"M", "&", "M">>, d, t, i, tot) :
        d   \in {BadDate, Date(14), Date(15), Date(16)},
        t   \in {BadTime, Time(840), Time(870), Time(871), Time(959)},
        i   \in {<<Gatorade>>, <<Gatorade, Pizza>>},
        tot \in {<<"9", ".", "0", "0">>, <<"9", ".", "2", "5">>, <<"1", ".", "5">>,
                 <<"1", "x">>}}
    \cup {Undecodable}

\* The identifiers of the path of a lookup.
PathIds == {NotAUUID, <<1, 1>>} \cup {<<4, k>> : k \in Keys}

\* ----------------------------------------------------------------- requests

OK == 200
BadRequest == 400
NotFound == 404

NoResponse == [status |-> 0, text |-> "", id |-> 0, points |-> 0]
InvalidReceipt == [status |-> BadRequest, text |-> "The receipt is invalid", id |-> 0, points |-> 0]
NoReceiptFound == [status |-> NotFound, text |-> "No receipt found for that id", id |-> 0, points |-> 0]
IdResponse(k) == [status |-> OK, text |-> "", id |-> k, points |-> 0]
PointsResponse(n) == [status |-> OK, text |-> "", id |-> 0, points |-> n]

\* What the backend held under a lookup's key when its last attempt was made.
NoSnapshot == [taken |-> FALSE, present |-> FALSE, val |-> << >>, setOk |-> FALSE,
               ttlOver |-> FALSE, expired |-> FALSE]

IdleRequest ==
    [pc         |-> "idle",      \* idle, SetKey, GetKey, done
     handler    |-> "",          \* ProcessReceiptHandler, GetPointsHandler
     rec        |-> Undecodable, \* the request body
     path       |-> NotAUUID,    \* the path identifier
     evaluated  |-> << >>,       \* the rules the pipeline evaluated
     failed     |-> "",          \* the rule that rejected the receipt
     key        |-> 0,           \* the key given to the adapter
     value      |-> << >>,       \* the value given to SetKey
     ctx        |-> "none",      \* the context of the call: live, expired
     outcomes   |-> << >>,       \* what each backend attempt returned
     expiration |-> << >>,       \* the expiration given to client.Set
     firedAt    |-> 0,           \* the attempt on which the deadline fired
     seen       |-> NoSnapshot,
     ret        |-> "",          \* the error the adapter returned, "ok" for nil
     got        |-> << >>,       \* the value GetKey returned
     resp       |-> NoResponse]

\* ------------------------------------------------------------------ backend

NoRecord == [present |-> FALSE, val |-> << >>, expiration |-> << >>, setOk |-> FALSE,
             ttlOver |-> FALSE, expired |-> FALSE]

\* SET key value [EX expiration]: go-redis sends the expiry only when the
\* expiration is positive; the record is rewritten and its age starts again.
Written(val, expiration) ==
    [present |-> TRUE, val |-> val, expiration |-> expiration, setOk |-> FALSE,
     ttlOver |-> FALSE, expired |-> FALSE]

\* GET key: the value of a record that is there and has not expired.
Lookup(record) ==
    IF record.present /\ ~record.expired
    THEN [err |-> "", val |-> record.val]
    ELSE [err |-> "nil", val |-> << >>]

\* The record expires by itself iff it was written with a positive expiration.
Expires(record) == record.present /\ IsPositive64(record.expiration)

\* Time passes for the record under key k, up to the next of two moments: the
\* configured TTL since the write, and the expiration the backend was given.
TimePasses(k) ==
    LET r     == store[k]
        early == Expires(r) /\ Less64(r.expiration, ConfiguredTTL(config))
        same  == Expires(r) /\ r.expiration = ConfiguredTTL(config)
    IN  /\ r.present
        /\ \/ /\ ~r.ttlOver /\ (~early \/ r.expired)
              /\ store' = [store EXCEPT ![k].ttlOver = TRUE,
                                        ![k].expired = r.expired \/ same]
           \/ /\ Expires(r) /\ ~r.expired /\ (early \/ r.ttlOver)
              /\ store' = [store EXCEPT ![k].expired = TRUE]
        /\ UNCHANGED <<config, goarch, req, nextId, inputs, clients, arg, out>>

\* ------------------------------------------------------------ store adapter

\* What a backend attempt can return under a context: nil ("ok" below), the
\* redis.Nil of an absent key, context.DeadlineExceeded when the deadline of the
\* context fires, context.Canceled when the request it derives from is
\* cancelled, or another error.  Under an expired context the client fails
\* without reaching the backend.
Errors(ctx) ==
    IF ctx = "expired" THEN {"deadline", "error"} ELSE {"", "deadline", "canceled", "error"}

\* The context after an attempt that returned err: done for good once its
\* deadline has fired or its request was cancelled.
ContextAfter(ctx, err) ==
    IF err = "deadline" THEN "expired" ELSE IF err = "canceled" THEN "canceled" ELSE ctx

\* The loop condition with <= for <: one attempt too many.
LoopConditionInclusive(i) == i <= config.MaxDBConnRetries

\* The loop condition of SetKey and GetKey: i < rs.config.MaxDBConnRetries.
LoopCondition(i) == i < config.MaxDBConnRetries

\* SetKey's loop body retrying on every error, not only on a deadline.
SetKeyBranchRetryAll(err) == IF err # "" THEN "continue" ELSE "ok"

\* The branches of SetKey's loop body on the error of an attempt: "continue",
\* or the error returned ("ok" for nil).
SetKeyBranch(err) ==
    IF err = "deadline" THEN "continue"
    ELSE IF err # "" THEN "fatal"
    ELSE "ok"

\* GetKey's loop body with the test for redis.Nil after the test for any error.
GetKeyBranchNilLast(err) ==
    IF err = "deadline" THEN "continue"
    ELSE IF err # "" THEN "fatal"
    ELSE IF err = "nil" THEN "notfound"
    ELSE "ok"

\* The branches of GetKey's loop body.
GetKeyBranch(err) ==
    IF err = "deadline" THEN "continue"
    ELSE IF err = "nil" THEN "notfound"
    ELSE IF err # "" THEN "fatal"
    ELSE "ok"

\* The loop testing its condition against the attempts before the last one: it
\* makes one attempt more.
ReturnedOneMore(branch, i) ==
    IF branch # "continue" THEN branch
    ELSE IF LoopCondition(i - 1) THEN ""
    ELSE "unavailable"

\* The loop testing its condition after its body only: it makes a first attempt
\* whatever the ceiling.
ReturnedBodyFirst(branch, i) ==
    IF branch # "continue" THEN branch
    ELSE IF i = 0 \/ LoopCondition(i) THEN ""
    ELSE "unavailable"

\* What the call returns after i attempts, the last of which took `branch`:
\* "" while the loop goes on, "unavailable" when the loop ends.
Returned(branch, i) ==
    IF branch # "continue" THEN branch
    ELSE IF LoopCondition(i) THEN ""
    ELSE "unavailable"

\* uuid.New() returning the identifier it returned first, again.
NewUUIDRepeated(n) == 1

\* uuid.New(): the n-th identifier generated (122 random bits), different from
\* every identifier generated before.
NewUUID(n) == n

\* The handler answering with the identifier whatever SetKey returned.
ProcessResponseUnchecked(ret, uuidString) == IdResponse(uuidString)

\* ProcessReceiptHandler after SetKey returned.
ProcessResponse(ret, uuidString) ==
    IF ret # "ok" THEN InvalidReceipt ELSE IdResponse(uuidString)

\* GetPointsHandler after GetKey returned.
PointsResponseOf(ret, pointsValue) ==
    IF ret # "ok" THEN NoReceiptFound
    ELSE IF Atoi(pointsValue).err THEN NoReceiptFound
    ELSE PointsResponse(Atoi(pointsValue).n)

\* The deadline of the context fires on attempt i if it had not fired before.
Fired(q, err, i) == IF q.ctx = "live" /\ err = "deadline" THEN i ELSE q.firedAt

\* One iteration of SetKey's loop for request r: the attempt, and what follows
\* it up to the next attempt or to the handler's response.
SetKeyAttempt(r) ==
    LET q   == req[r]
        i   == Len(q.outcomes) + 1
        exp == SetKeyExpiration(config)
    IN  /\ q.pc = "SetKey"
        /\ \E err \in Errors(q.ctx), applied \in BOOLEAN :
              LET ret == Returned(SetKeyBranch(err), i)
              IN  /\ err = "" => applied
                  /\ q.ctx = "expired" => ~applied
                  /\ store' = IF applied
                              THEN [store EXCEPT ![q.key] =
                                       [Written(q.value, exp) EXCEPT !.setOk = (err = "")]]
                              ELSE store
                  /\ req' = [req EXCEPT ![r] =
                        [q EXCEPT !.outcomes   = Append(q.outcomes, IF err = "" THEN "ok" ELSE err),
                                  !.expiration = exp,
                                  !.ctx        = ContextAfter(q.ctx, err),
                                  !.firedAt    = Fired(q, err, i),
                                  !.ret        = ret,
                                  !.pc         = IF ret = "" THEN "SetKey" ELSE "done",
                                  !.resp       = IF ret = "" THEN NoResponse
                                                 ELSE ProcessResponse(ret, q.key)]]
        /\ UNCHANGED <<config, goarch, nextId, inputs, clients, arg, out>>

\* One iteration of GetKey's loop for request r.
GetKeyAttempt(r) ==
    LET q    == req[r]
        i    == Len(q.outcomes) + 1
        held == store[q.key]
        look == Lookup(held)
    IN  /\ q.pc = "GetKey"
        /\ \E err \in Errors(q.ctx) \cup {"nil"} :
              LET ret == Returned(GetKeyBranch(err), i)
                  val == IF err = "" THEN look.val ELSE << >>
              IN  /\ err \in {"", "nil"} => q.ctx = "live" /\ err = look.err
                  /\ req' = [req EXCEPT ![r] =
                        [q EXCEPT !.outcomes = Append(q.outcomes, IF err = "" THEN "ok" ELSE err),
                                  !.ctx      = ContextAfter(q.ctx, err),
                                  !.firedAt  = Fired(q, err, i),
                                  !.seen     = [taken   |-> err \in {"", "nil"},
                                                present |-> held.present,
                                                val     |-> held.val,
                                                setOk   |-> held.setOk,
                                                ttlOver |-> held.ttlOver,
                                                expired |-> held.expired],
                                  !.ret      = ret,
                                  !.got      = IF ret = "ok" THEN val ELSE << >>,
                                  !.pc       = IF ret = "" THEN "GetKey" ELSE "done",
                                  !.resp     = IF ret = "" THEN NoResponse
                                               ELSE PointsResponseOf(ret, val)]]
        /\ UNCHANGED <<config, goarch, store, nextId, inputs, clients, arg, out>>

\* ----------------------------------------------------------------- handlers

\* Requests are numbered in the order in which their handlers start.
Arrives(r) ==
    r <= clients /\ req[r].pc = "idle" /\ \A p \in 1..(r - 1) : req[p].pc # "idle"

\* ProcessReceiptHandler, from the request to the first attempt of SetKey (or to
\* the response, when the receipt is rejected or the loop makes no attempt).
ProcessReceiptHandler(r, body) ==
    LET q       == req[r]
        score   == ScoreReceipt(body)
        ret     == Returned("continue", 0)
        started == [q EXCEPT !.handler = "ProcessReceiptHandler", !.rec = body]
    IN  /\ Arrives(r)
        /\ IF ~body.Decodes
           THEN /\ req' = [req EXCEPT ![r] =
                      [started EXCEPT !.pc = "done", !.failed = "decode",
                                      !.resp = InvalidReceipt]]
                /\ UNCHANGED nextId
           ELSE IF score.failed # ""
           THEN /\ req' = [req EXCEPT ![r] =
                      [started EXCEPT !.pc = "done", !.failed = score.failed,
                                      !.evaluated = score.evaluated,
                                      !.resp = InvalidReceipt]]
                /\ UNCHANGED nextId
           ELSE /\ req' = [req EXCEPT ![r] =
                      [started EXCEPT !.evaluated = score.evaluated,
                                      !.value = ItoaInt(score.points),
                                      !.key   = NewUUID(nextId),
                                      !.ctx   = "live",
                                      !.ret   = ret,
                                      !.pc    = IF ret = "" THEN "SetKey" ELSE "done",
                                      !.resp  = IF ret = "" THEN NoResponse
                                                ELSE ProcessResponse(ret, NewUUID(nextId))]]
                /\ nextId' = nextId + 1
        /\ UNCHANGED <<config, goarch, store, inputs, clients, arg, out>>

\* GetPointsHandler, from the request to the first attempt of GetKey.
GetPointsHandler(r, receiptId) ==
    LET q       == req[r]
        ret     == Returned("continue", 0)
        started == [q EXCEPT !.handler = "GetPointsHandler", !.path = receiptId]
    IN  /\ Arrives(r)
        /\ IF ~isValidUUIDv4(receiptId)
           THEN req' = [req EXCEPT ![r] =
                   [started EXCEPT !.pc = "done", !.failed = "uuid",
                                   !.resp = NoReceiptFound]]
           ELSE req' = [req EXCEPT ![r] =
                   [started EXCEPT !.key  = receiptId[2],
                                   !.ctx  = "live",
                                   !.ret  = ret,
                                   !.pc   = IF ret = "" THEN "GetKey" ELSE "done",
                                   !.resp = IF ret = "" THEN NoResponse
                                            ELSE PointsResponseOf(ret, << >>)]]
        /\ UNCHANGED <<config, goarch, store, nextId, inputs, clients, arg, out>>

\* ----------------------------------------------------------- specifications

\* The configurations the process is started with: every TTL with the retry
\* ceiling of docker-compose.yml, and every retry ceiling with its TTL.
Configs ==
    {Load(t, DefaultRetries) : t \in TTLValues} \cup {Load(DefaultTTL, n) : n \in RetryValues}

InitWith(configs, archs, bodies, n, args) ==
    /\ config \in configs
    /\ goarch \in archs
    /\ clients = n
    /\ req = [r \in Req |-> IdleRequest]
    /\ store = [k \in Keys |-> NoRecord]
    /\ nextId = 1
    /\ inputs = bodies
    /\ arg \in args
    /\ out = << >>

\* Concurrent requests against the store, under every configuration.  No amount
\* of these receipts is out of the range of int, so that one architecture stands
\* for all.
Init == InitWith(Configs, {"amd64"}, StoreReceipts, MaxReq, {<< >>})

Next ==
    \/ \E r \in Req, body \in inputs : ProcessReceiptHandler(r, body)
    \/ \E r \in Req, id \in PathIds : GetPointsHandler(r, id)
    \/ \E r \in Req : SetKeyAttempt(r)
    \/ \E r \in Req : GetKeyAttempt(r)
    \/ \E k \in Keys : TimePasses(k)

Spec == Init /\ [][Next]_vars

\* One request at a time, with every combination of receipt fields, under the
\* configuration of docker-compose.yml.
InitPipeline ==
    InitWith({Load(DefaultTTL, DefaultRetries)}, {"amd64"}, PipelineReceipts, 1, {<< >>})

SpecPipeline == InitPipeline /\ [][Next]_vars

\* parseDollarAsStringInput on its own, on every string of at most MaxLen of
\* these characters.
DollarChars == {"0", "3", "5", "6", ".", ",", "x", ArabicThree}

RECURSIVE StringsUpTo(_, _)
StringsUpTo(chars, n) ==
    IF n = 0 THEN {<< >>}
    ELSE LET shorter == StringsUpTo(chars, n - 1)
         IN  shorter \cup {Append(t, c) : t \in {u \in shorter : Len(u) = n - 1}, c \in chars}

\* No request arrives: only the function is applied.
InitPure(args) == InitWith({Load(DefaultTTL, DefaultRetries)}, GoArchs, {}, 0, args)

InitParse == InitPure(StringsUpTo(DollarChars, MaxLen))

ParseDollar ==
    /\ out = << >>
    /\ out' = <<parseDollarAsStringInput(arg)>>
    /\ UNCHANGED <<config, goarch, req, store, nextId, inputs, clients, arg>>

SpecParse == InitParse /\ [][ParseDollar]_vars

\* The scoring of a receipt and of the same receipt with its items in another
\* order: arg is the pair of the receipt as submitted and as reordered.
ItemPool ==
    {Gatorade, Pizza, Fortune,
     Item(<<"x", "x", "x">>, <<"1", "x">>),
     Item(<<"a", "a", "a", "a", "a", "a">>, <<"1", "2", ".", "0", "0">>)}

ItemLists == UNION {[1..n -> ItemPool] : n \in 0..MaxItems}

PermutedReceipts ==
    {Receipt(<<"T", "a">>, d, Time(841), i, tot) :
        d   \in {Date(15), Date(16)},
        i   \in ItemLists,
        tot \in {<<"9", ".", "0", "0">>, <<"1", ".", "5">>}}

InitItems == InitPure({<<rec, rec>> : rec \in PermutedReceipts})

\* items with the items at i and j exchanged.
Swapped(items, i, j) ==
    [k \in 1..Len(items) |-> IF k = i THEN items[j] ELSE IF k = j THEN items[i] ELSE items[k]]

Reorder ==
    /\ \E i, j \in 1..Len(arg[2].Items) :
          /\ i < j
          /\ arg' = <<arg[1], [arg[2] EXCEPT !.Items = Swapped(arg[2].Items, i, j)]>>
    /\ out' = <<ScoreReceipt(arg'[1]), ScoreReceipt(arg'[2])>>
    /\ UNCHANGED <<config, goarch, req, store, nextId, inputs, clients>>

SpecItems == InitItems /\ [][Reorder]_vars

\* calculatePointsFromItems on its own.  The descriptions have every trimmed
\* length from 0 to 3, spaces inside and around, and a two-byte character; the
\* prices parse, or do not, or are out of the range of int.
RuleDescriptions ==
    {<< >>, <<" ", " ">>, <<"a">>, <<"a", "a">>, <<"a", "a", "a">>, <<" ", "x", "x", " ">>,
     <<" ", "a", "a", "a", " ">>, <<"a", " ", "a">>, <<ArabicThree, "a">>,
     <<ArabicThree, "a", "a">>}

RulePrices ==
    {<<"2", ".", "2", "5">>, <<"1", "2", ".", "0", "0">>, <<"5", ".", "0", "0">>,
     <<"0", ".", "0", "1">>, <<"0", ".", "0", "0">>, <<"3", "6">>, <<".", "5", "0">>,
     <<"1", ",", "0", "0", "0", ".", "1", "0">>,
     <<"1", "x">>, <<"1", ".", "5">>, << >>, <<ArabicThree, ".", "0", "0">>,
     TenTo20 \o <<".", "0", "0">>}

RuleItems == {Item(d, p) : d \in RuleDescriptions, p \in RulePrices}

\* One item, or one item before or after another that scores.
RuleItemLists ==
    {<< >>} \cup {<<i>> : i \in RuleItems} \cup {<<i, Gatorade>> : i \in RuleItems}
    \cup {<<Gatorade, i>> : i \in RuleItems}

InitItemRule == InitPure(RuleItemLists)

PointsFromItems ==
    /\ out = << >>
    /\ out' = <<calculatePointsFromItems(arg)>>
    /\ UNCHANGED <<config, goarch, req, store, nextId, inputs, clients, arg>>

SpecItemRule == InitItemRule /\ [][PointsFromItems]_vars

\* calculatePurchaseTimePoints on its own, on every minute of yesterday and of
\* today, and on a time and a date that do not parse.
MinutesOfDay == 0..(24 * 60 - 1)

TimeArgs ==
    {<<Time(m), Date(d)>> : m \in MinutesOfDay, d \in {NowDay - 1, NowDay}}
    \cup {<<BadTime, Date(NowDay - 1)>>, <<Time(0), BadDate>>}

InitTime == InitPure(TimeArgs)

PurchaseTimePoints ==
    /\ out = << >>
    /\ out' = <<calculatePurchaseTimePoints(arg[1], arg[2])>>
    /\ UNCHANGED <<config, goarch, req, store, nextId, inputs, clients, arg>>

SpecTime == InitTime /\ [][PurchaseTimePoints]_vars

\* calculateReceiptTotalPoints on its own: the totals of some dollars, and of
\* 10^20 dollars, with every number of cents; totals without a decimal point;
\* and totals that do not parse.
Cents == {<<DigitChar(c \div 10), DigitChar(c % 10)>> : c \in 0..99}

Dollars == {<< >>, <<"0">>, <<"9">>, <<"3", "5">>, <<"1", ",", "2", "0", "0">>, TenTo20}

RuleTotals ==
    {d \o <<".">> \o c : d \in Dollars, c \in Cents}
    \cup {<<"3", "6">>, <<"1", "0", "0">>, TenTo20}
    \cup {<< >>, <<"1", ".", "5">>, <<"9", ".", "0", "0", "0">>, <<"1", "x">>, <<".">>,
          <<"1", ".", "0", ".", "0", "0">>, <<ArabicThree, ".", "0", "0">>}

InitTotal == InitPure(RuleTotals)

ReceiptTotalPoints ==
    /\ out = << >>
    /\ out' = <<calculateReceiptTotalPoints(arg)>>
    /\ UNCHANGED <<config, goarch, req, store, nextId, inputs, clients, arg>>

SpecTotal == InitTotal /\ [][ReceiptTotalPoints]_vars

\* The scoring of ProcessReceiptHandler on its own, up to the value it gives to
\* SetKey: receipts with every rule scoring or not, and with items whose price
\* is out of the range of int.
ScoreReceipts ==
    {Receipt(r, d, t, i, tot) :
        r   \in {<< >>, <<"M", "&", "M">>, <<"T", "a", " ", ArabicThree>>},
        d   \in {Date(NowDay - 1), Date(NowDay - 2), Date(NowDay + 1)},
        t   \in {Time(14 * 60), Time(14 * 60 + 1)},
        i   \in {<< >>, <<Gatorade>>, <<Gatorade, Pizza>>, <<Pizza, Gatorade, Gatorade>>,
                 <<Item(<<"x", "x", "x">>, <<"1", "x">>), Gatorade>>,
                 <<Fortune>>, <<Fortune, Gatorade>>, <<Fortune, Fortune>>},
        tot \in {<<"9", ".", "0", "0">>, <<"9", ".", "2", "5">>, <<"1", ".", "1", "0">>,
                 <<"1", ".", "5">>}}

InitScore == InitPure(ScoreReceipts)

\* The scoring, and strconv.Itoa(pointsTotal) for a receipt that passed.
Score ==
    /\ out = << >>
    /\ LET score == ScoreReceipt(arg)
       IN  out' = <<[score |-> score,
                     value |-> IF score.failed = "" THEN ItoaInt(score.points) ELSE << >>]>>
    /\ UNCHANGED <<config, goarch, req, store, nextId, inputs, clients, arg>>

SpecScore == InitScore /\ [][Score]_vars

\* ------------------------------------------------------- the retry discipline

Requests == {req[r] : r \in Req}

\* The handler of q called the adapter.
Called(q) == q.ctx # "none"

AllDeadline(q) == \A i \in 1..Len(q.outcomes) : q.outcomes[i] = "deadline"

Max(a, b) == IF a > b THEN a ELSE b

\* C1 as stated: a call of SetKey or GetKey whose attempts all returned
\* deadline-exceeded has made exactly MaxDBConnRetries attempts when it returns,
\* and returns the max-retries error.
C1_ExactlyMaxRetries ==
    \A q \in Requests :
        Called(q) /\ q.pc = "done" /\ AllDeadline(q)
            => Len(q.outcomes) = config.MaxDBConnRetries /\ q.ret = "unavailable"

\* C1 (amended): a call of SetKey or GetKey whose attempts all returned
\* deadline-exceeded goes on while it has made fewer than MaxDBConnRetries
\* attempts, and returns after exactly max(MaxDBConnRetries, 0) attempts with the
\* max-retries error; that error is returned in no other case, and is neither
\* the fatal error nor the key-not-found error.
C1_RetriesExhausted ==
    \A q \in Requests :
        /\ Called(q) /\ AllDeadline(q) =>
              IF q.pc = "done"
              THEN /\ Len(q.outcomes) = Max(config.MaxDBConnRetries, 0)
                   /\ q.ret = "unavailable"
              ELSE /\ Len(q.outcomes) < config.MaxDBConnRetries
                   /\ q.ret = ""
        /\ q.ret = "unavailable" =>
              /\ AllDeadline(q)
              /\ Len(q.outcomes) = Max(config.MaxDBConnRetries, 0)
              /\ q.ret \notin {"fatal", "notfound", "ok"}

\* A SetKey and a GetKey that both made three attempts, all deadline-exceeded.
C1_Witness ==
    \E p, g \in Requests :
        /\ p.handler = "ProcessReceiptHandler" /\ g.handler = "GetPointsHandler"
        /\ p.outcomes = <<"deadline", "deadline", "deadline">>
        /\ g.outcomes = <<"deadline", "deadline", "deadline">>
        /\ p.ret = "unavailable" /\ g.ret = "unavailable"

\* C2: an attempt of SetKey or GetKey that returns an error other than
\* deadline-exceeded (and other than redis.Nil) is the call's last attempt, and
\* the call has returned the fatal store error, however many deadline-exceeded
\* attempts came before.
C2_FatalWithoutRetry ==
    \A q \in Requests : \A i \in 1..Len(q.outcomes) :
        q.outcomes[i] \in {"error", "canceled"}
            => i = Len(q.outcomes) /\ q.pc = "done" /\ q.ret = "fatal"

\* A SetKey that failed on its second attempt and a GetKey that failed on its
\* third, after deadline-exceeded attempts.
C2_Witness ==
    \E p, g \in Requests :
        /\ p.handler = "ProcessReceiptHandler" /\ g.handler = "GetPointsHandler"
        /\ p.outcomes = <<"deadline", "error">> /\ p.ret = "fatal"
        /\ g.outcomes = <<"deadline", "deadline", "error">> /\ g.ret = "fatal"

\* C3: an attempt of GetKey on which the backend reports the key absent is the
\* call's last attempt, and the call has returned the key-not-found error, not
\* the fatal error, the max-retries error or a value.
C3_NotFoundWithoutRetry ==
    \A q \in Requests : \A i \in 1..Len(q.outcomes) :
        q.outcomes[i] = "nil"
            => /\ i = Len(q.outcomes) /\ q.pc = "done"
               /\ q.ret = "notfound" /\ q.got = << >>

\* A GetKey of a key whose record was written and has expired.
C3_Witness ==
    \E g \in Requests :
        /\ g.outcomes = <<"nil">> /\ g.seen.present /\ g.seen.expired
        /\ g.pc = "done" /\ g.ret = "notfound"

\* C4 as stated: once the deadline of the context has fired, on attempt
\* firedAt, the call makes no later attempt.
C4_NoAttemptAfterDeadline ==
    \A q \in Requests : q.firedAt > 0 => Len(q.outcomes) <= q.firedAt

\* ------------------------------------------------------------------ the TTL

\* C5 as stated: the expiration SetKey gives the backend is the configured TTL,
\* REDIS_TTL_IN_S seconds, and is positive.
C5_ExpirationIsConfiguredTTL ==
    \A q \in Requests :
        q.expiration # << >>
            => q.expiration = ConfiguredTTL(config) /\ IsPositive64(q.expiration)

\* The value SetKey was given for key k by the request that minted k.
ValueSet(k) == {p.value : p \in {x \in Requests : x.handler = "ProcessReceiptHandler" /\ x.key = k}}

\* C6 as stated: a GetKey that reaches the backend, for a key whose SetKey
\* returned success and whose configured TTL has not elapsed since the write,
\* returns the value given to SetKey.
C6_RoundTripWithinTTL ==
    \A g \in Requests :
        g.handler = "GetPointsHandler" /\ g.seen.taken /\ g.seen.setOk /\ ~g.seen.ttlOver
            => /\ g.ret = "ok"
               /\ {g.got} = ValueSet(g.key)
               /\ g.resp = PointsResponse(Atoi(g.got).n)

\* The round trip while the backend has not expired the record, whatever the
\* expiration it was given: it holds, and the requests on other keys do not
\* disturb it.
RoundTripUntilExpired ==
    \A g \in Requests :
        g.handler = "GetPointsHandler" /\ g.seen.taken /\ g.seen.setOk /\ ~g.seen.expired
            => /\ g.ret = "ok"
               /\ {g.got} = ValueSet(g.key)
               /\ g.resp = PointsResponse(Atoi(g.got).n)

\* C7 as stated: a lookup that reaches the backend for a key never written, or
\* for a key written whose configured TTL has since elapsed, returns the
\* key-not-found error, and the caller gets the same response in both cases.
C7_ElapsedLooksNeverWritten ==
    \A g \in Requests :
        g.handler = "GetPointsHandler" /\ g.seen.taken
        /\ (~g.seen.present \/ g.seen.ttlOver)
            => g.ret = "notfound" /\ g.resp = NoReceiptFound

\* ----------------------------------------------------------- the pipeline

\* One or more ASCII digits, a decimal point, two ASCII digits.
MatchesAmountPattern(s) ==
    /\ Len(s) >= 4
    /\ s[Len(s) - 2] = "."
    /\ \A i \in (1..Len(s)) \ {Len(s) - 2} : s[i] \in AsciiDigits

\* C8 as stated: parseDollarAsStringInput returns an error for every string
\* that, with its commas removed, is not digits, a decimal point and two digits.
C8_RejectsAllButTwoDecimals ==
    out # << >> /\ ~MatchesAmountPattern(RemoveCommas(arg)) => out[1].err # ""

\* What parseDollarAsStringInput accepts: with the commas removed, one or more
\* ASCII digits, or ASCII digits (possibly none), a decimal point and two ASCII
\* digits.
AcceptedAmount(s) ==
    \/ Len(s) >= 1 /\ \A i \in 1..Len(s) : s[i] \in AsciiDigits
    \/ /\ Len(s) >= 3
       /\ s[Len(s) - 2] = "."
       /\ \A i \in (1..Len(s)) \ {Len(s) - 2} : s[i] \in AsciiDigits

ParseAcceptsExactly ==
    out # << >> => (out[1].err = "" <=> AcceptedAmount(RemoveCommas(arg)))

\* C9: a receipt and the same receipt with its line items in any other order
\* have the same outcome of the scoring pipeline: both rejected by the same
\* rule, or both accepted with the same score.
C9_ItemOrderIrrelevant ==
    out # << >> => out[1].failed = out[2].failed /\ out[1].points = out[2].points

\* An accepted receipt whose items were reordered, one of them with a price that
\* does not parse, the others with different contributions.
C9_Witness ==
    /\ out # << >>
    /\ arg[1].Items # arg[2].Items
    /\ Len(arg[2].Items) = 3
    /\ parseDollarAsStringInput(arg[2].Items[1].Price).err # ""
    /\ out[2].failed = ""
    /\ out[2].points.hi = 0
    /\ out[2].points.lo > 75 + 2 + 5 + 6 + 10

\* The first of the checks total, date, time that fails on a receipt, with the
\* rules evaluated up to it.
FirstFailure(rec) ==
    IF parseDollarAsStringInput(rec.Total).err # "" THEN "total"
    ELSE IF parseDateAsStringInput(rec.PurchaseDate).err # "" THEN "date"
    ELSE IF parseTimeAsStringInput(rec.PurchaseTime, rec.PurchaseDate).err # "" THEN "time"
    ELSE ""

RulesUpTo(rule) ==
    CASE rule = "total" -> <<"retailer", "total">>
      [] rule = "date"  -> <<"retailer", "total", "pairs", "items", "date">>
      [] OTHER          -> <<"retailer", "total", "pairs", "items", "date", "time">>

\* C10: a decoded receipt is rejected by the first of the checks total, date,
\* time that fails on it: the rules after that check are not evaluated, the
\* response is the rejection and carries no identifier, no identifier is
\* generated, SetKey is not called and the store holds no record.
C10_FirstFailureRejects ==
    \A q \in Requests :
        q.handler = "ProcessReceiptHandler" /\ q.rec.Decodes /\ FirstFailure(q.rec) # ""
            => /\ q.pc = "done"
               /\ q.failed = FirstFailure(q.rec)
               /\ q.evaluated = RulesUpTo(FirstFailure(q.rec))
               /\ q.resp = InvalidReceipt
               /\ ~Called(q) /\ q.outcomes = << >> /\ q.key = 0
               /\ nextId = 1
               /\ \A k \in Keys : ~store[k].present

\* A receipt with an invalid total and an invalid date, rejected at its total.
C10_Witness ==
    \E q \in Requests :
        /\ q.failed = "total"
        /\ ~q.rec.PurchaseDate.valid
        /\ q.evaluated = <<"retailer", "total">>
        /\ q.resp = InvalidReceipt

\* ------------------------------------------------------------ the item rule

\* The smallest whole number not below a fifth of num / 10^scale.
ExactCeilFifth(num, scale) ==
    CHOOSE n \in 0..num : 5 * n * Pow10(scale) >= num /\ (n = 0 \/ 5 * (n - 1) * Pow10(scale) < num)

\* The length of a description without the spaces around it, in bytes.
TrimmedLength(desc) ==
    LET inside == {i \in 1..Len(desc) : desc[i] # " "}
    IN  IF inside = {} THEN 0
        ELSE LET first == CHOOSE i \in inside : \A j \in inside : i <= j
                 last  == CHOOSE i \in inside : \A j \in inside : i >= j
             IN  ByteLenOf(SubSeq(desc, first, last))

\* What C11 says an item adds: [fits |-> whether the number is in the range of
\* int, n |-> the number].  A fifth of 10^20 or more is not in the range.
ClaimedItemPoints(item) ==
    LET f == parseDollarAsStringInput(item.Price)
    IN  IF TrimmedLength(item.ShortDescription) % 3 # 0 \/ f.err # "" THEN [fits |-> TRUE, n |-> 0]
        ELSE IF f.huge THEN [fits |-> FALSE, n |-> 0]
        ELSE [fits |-> TRUE, n |-> ExactCeilFifth(f.num, f.scale)]

RECURSIVE ClaimedItemsSum(_)
ClaimedItemsSum(items) ==
    IF items = << >> THEN 0
    ELSE ClaimedItemPoints(Head(items)).n + ClaimedItemsSum(Tail(items))

\* C11 as stated: calculatePointsFromItems returns the sum, over the items, of
\* ceil(price * 0.2) for an item whose trimmed description length is a multiple
\* of 3 and whose price parses, and of 0 for any other item.
C11_ItemsAddCeilOrZero ==
    out # << >> =>
        /\ \A i \in 1..Len(arg) : ClaimedItemPoints(arg[i]).fits
        /\ out[1] = IntOf(ClaimedItemsSum(arg))

\* The same for the prices whose fifth is in the range of int: it holds.
ItemsAddCeilOrZeroInRange ==
    out # << >> /\ (\A i \in 1..Len(arg) : ClaimedItemPoints(arg[i]).fits)
        => out[1] = IntOf(ClaimedItemsSum(arg))

\* ----------------------------------------------------------- identifiers

\* The submissions that reached the store adapter.
Minted == {r \in Req : req[r].handler = "ProcessReceiptHandler" /\ Called(req[r])}

\* C12: two submissions that reached the store were given different
\* identifiers; each record of the store is the record of one submission, holds
\* the value of that submission and of no other; and every accepted submission
\* has its own record.
C12_FreshIdentifierPerSubmission ==
    /\ \A r1, r2 \in Minted : r1 # r2 => req[r1].key # req[r2].key
    /\ \A k \in Keys : store[k].present =>
           \E r \in Minted :
               /\ req[r].key = k /\ store[k].val = req[r].value
               /\ \A r2 \in Minted : req[r2].key = k => r2 = r
    /\ \A r \in Minted : req[r].resp.status = OK =>
           /\ req[r].resp = IdResponse(req[r].key)
           /\ store[req[r].key].present /\ store[req[r].key].val = req[r].value

\* The same receipt submitted twice and accepted twice: two identifiers, two
\* records.
C12_Witness ==
    \E r1, r2 \in Minted :
        /\ r1 # r2 /\ req[r1].rec = req[r2].rec
        /\ req[r1].resp.status = OK /\ req[r2].resp.status = OK
        /\ req[r1].resp.id # req[r2].resp.id
        /\ store[req[r1].key].present /\ store[req[r2].key].present

\* The lookups.
Lookups == {q \in Requests : q.handler = "GetPointsHandler"}

\* C13: a lookup whose path identifier is not a UUID, or is a UUID of another
\* version than 4, is answered not-found without any call of the store adapter;
\* a lookup that called GetKey has a version-4 UUID in its path, and called it
\* with that identifier.
C13_LookupValidatesFirst ==
    \A q \in Lookups :
        /\ (q.path = NotAUUID \/ q.path[1] # 4) =>
              /\ ~Called(q) /\ q.outcomes = << >> /\ q.seen = NoSnapshot
              /\ q.pc = "done" /\ q.resp = NoReceiptFound
        /\ Called(q) => q.path # NotAUUID /\ q.path[1] = 4 /\ q.key = q.path[2]

\* A lookup with a version-1 UUID, answered without a call of the adapter, and
\* a lookup with a version-4 UUID that reached the backend.
C13_Witness ==
    \E q1, q2 \in Lookups :
        /\ q1.path # NotAUUID /\ q1.path[1] = 1 /\ q1.resp = NoReceiptFound /\ ~Called(q1)
        /\ q2.path # NotAUUID /\ q2.path[1] = 4 /\ q2.outcomes # << >>

\* ------------------------------------------------------------ cancellation

\* The attempts of q during which the scope of its caller ended: the deadline
\* of the context fired, or the request was cancelled.
ScopeEnded(q) == {i \in 1..Len(q.outcomes) : q.outcomes[i] \in {"deadline", "canceled"}}

\* C14 as stated: when the scope of the caller ended during an attempt of
\* SetKey or GetKey, the call makes no attempt after that one and returns an
\* error, and no later attempt is reported as a success.
C14_NoAttemptAfterScopeEnded ==
    \A q \in Requests : \A i \in ScopeEnded(q) :
        /\ Len(q.outcomes) = i
        /\ q.pc = "done" => q.ret \in {"fatal", "unavailable"}
        /\ \A j \in (i + 1)..Len(q.outcomes) : q.outcomes[j] # "ok"

\* What holds of it: a cancelled request ends the call at once with the fatal
\* error, and after the scope ended, by a deadline or a cancellation, no attempt
\* succeeds and the call never returns success.
ScopeEndedNeverSucceeds ==
    \A q \in Requests : \A i \in ScopeEnded(q) :
        /\ q.outcomes[i] = "canceled" => Len(q.outcomes) = i /\ q.pc = "done" /\ q.ret = "fatal"
        /\ \A j \in (i + 1)..Len(q.outcomes) : q.outcomes[j] \notin {"ok", "nil"}
        /\ q.ret \notin {"ok", "notfound"}

\* -------------------------------------------------------- the retry ceiling

\* C15 as stated: the backend attempts made for one request are never more than
\* MaxDBConnRetries.
C15_AttemptsWithinCeiling ==
    \A q \in Requests : Called(q) => Len(q.outcomes) <= config.MaxDBConnRetries

\* C15 (amended): the backend attempts made for one request, by the one call of
\* SetKey or GetKey of its handler, are never more than max(MaxDBConnRetries, 0);
\* every attempt but the last returned deadline-exceeded, so that each attempt
\* was made after the one before it had returned; and attempts are made only
\* inside the one call of the request's handler (SetKey for a submission, GetKey
\* for a lookup), while fewer than MaxDBConnRetries have been made.
C15_AttemptsWithinPositiveCeiling ==
    \A q \in Requests :
        /\ Len(q.outcomes) <= Max(config.MaxDBConnRetries, 0)
        /\ \A i \in 1..(Len(q.outcomes) - 1) : q.outcomes[i] = "deadline"
        /\ q.outcomes # << >> => Called(q)
        /\ q.pc \in {"SetKey", "GetKey"} => Len(q.outcomes) < config.MaxDBConnRetries
        /\ q.pc = "SetKey" => q.handler = "ProcessReceiptHandler"
        /\ q.pc = "GetKey" => q.handler = "GetPointsHandler"

\* A submission and a lookup that both used up the three attempts of the
\* ceiling, the submission failing on its last one.
C15_Witness ==
    \E p, g \in Requests :
        /\ p.handler = "ProcessReceiptHandler" /\ g.handler = "GetPointsHandler"
        /\ config.MaxDBConnRetries = 3
        /\ Len(p.outcomes) = 3 /\ Len(g.outcomes) = 3
        /\ p.pc = "done" /\ g.pc = "done" /\ p.outcomes[3] = "error"

\* C20: with MaxDBConnRetries zero or negative, a call of SetKey or GetKey makes
\* no backend attempt and returns the max-retries error; no record is written,
\* no lookup reads one, and every submission and every lookup is refused.
C20_NoAttemptWithoutRetries ==
    config.MaxDBConnRetries <= 0 =>
        /\ \A k \in Keys : store[k] = NoRecord
        /\ \A q \in Requests :
              /\ q.outcomes = << >> /\ q.seen = NoSnapshot /\ q.got = << >>
              /\ q.pc \in {"idle", "done"}
              /\ Called(q) => q.ret = "unavailable"
              /\ q.pc = "done" /\ q.handler = "ProcessReceiptHandler" => q.resp = InvalidReceipt
              /\ q.pc = "done" /\ q.handler = "GetPointsHandler" => q.resp = NoReceiptFound

\* With a ceiling of 0, a valid receipt refused and a lookup of a version-4
\* identifier refused, both without an attempt.
C20_Witness ==
    \E p, g \in Requests :
        /\ config.MaxDBConnRetries = 0
        /\ p.handler = "ProcessReceiptHandler" /\ Called(p) /\ p.value # << >>
        /\ p.ret = "unavailable" /\ p.resp = InvalidReceipt
        /\ g.handler = "GetPointsHandler" /\ Called(g)
        /\ g.ret = "unavailable" /\ g.resp = NoReceiptFound

\* ------------------------------------------------------------ the time rule

\* C16: for a purchase time that passes the check, calculatePurchaseTimePoints
\* gives 10 points when the time is after 14:00 and before 16:00, and 0 when it
\* is not: 0 at 14:00 and at 16:00, 10 at 14:01 and at 15:59.
C16_TenStrictlyInsideWindow ==
    out # << >> /\ out[1].err = "" =>
        out[1].points = IF arg[1].minute > 14 * 60 /\ arg[1].minute < 16 * 60 THEN 10 ELSE 0

\* 14:00 yesterday, which passes the check and scores nothing.
C16_Witness ==
    /\ out # << >> /\ out[1].err = "" /\ out[1].points = 0
    /\ arg[1] = Time(14 * 60)

\* ----------------------------------------------------------- the total rule

\* The two digits after the decimal point of a total that parses, as a number:
\* 0 for a total without a decimal point.
CentsOf(total) ==
    LET amt == RemoveCommas(total)
    IN  IF \E i \in 1..Len(amt) : amt[i] = "."
        THEN 10 * DigitValue(amt[Len(amt) - 1]) + DigitValue(amt[Len(amt)])
        ELSE 0

\* The points C17 gives to a number of cents.
ClaimedTotalPoints(cents) ==
    IF cents = 0 THEN 75 ELSE IF cents \in {25, 50, 75} THEN 25 ELSE 0

\* C17 as stated: a total that parses gets 75 points when its cents are 00, 25
\* when they are 25, 50 or 75, and 0 for any other cents; a total that does not
\* parse gets an error and no points.
C17_TotalPointsByCents ==
    out # << >> =>
        IF out[1].err = "" THEN out[1].points = ClaimedTotalPoints(CentsOf(arg))
        ELSE out[1].points = 0 /\ parseDollarAsStringInput(arg).err # ""

\* C17 (amended): the same for a total that float64 holds apart from the whole
\* numbers next to it; a total of 10^20 or more is a whole number as a float64
\* and gets 75 points whatever its cents.
C17_TotalPointsOfTheFloat ==
    out # << >> =>
        IF out[1].err # "" THEN out[1].points = 0 /\ parseDollarAsStringInput(arg).err # ""
        ELSE IF Len(IntegerDigits(RemoveCommas(arg))) >= HugeDigits THEN out[1].points = 75
        ELSE out[1].points = ClaimedTotalPoints(CentsOf(arg))

\* A total of 35 dollars and 75 cents, which gets the 25 points and not the 50.
C17_Witness ==
    /\ out # << >> /\ out[1].err = "" /\ out[1].points = 25
    /\ arg = <<"3", "5", ".", "7", "5">>

\* ------------------------------------------------------ dates in the future

\* The submissions whose body decodes and whose total, date and time parse.
WellFormed ==
    {q \in Requests : /\ q.handler = "ProcessReceiptHandler" /\ q.rec.Decodes
                      /\ parseDollarAsStringInput(q.rec.Total).err = ""
                      /\ q.rec.PurchaseDate.valid /\ q.rec.PurchaseTime.valid}

\* C18: a receipt whose date is after today, or whose date is today and whose
\* time is after the current minute, is rejected, at its date or at its time,
\* without any identifier, call of SetKey or record; a receipt of today whose
\* time is the current minute or an earlier one passes both checks.
C18_FutureRejectedNowAccepted ==
    \A q \in WellFormed :
        LET day    == q.rec.PurchaseDate.day
            minute == q.rec.PurchaseTime.minute
        IN  /\ day > NowDay =>
                  /\ q.failed = "date" /\ q.resp = InvalidReceipt
                  /\ ~Called(q) /\ q.key = 0 /\ \A k \in Keys : store[k] = NoRecord
            /\ day = NowDay /\ minute > NowMinute =>
                  /\ q.failed = "time" /\ q.resp = InvalidReceipt
                  /\ ~Called(q) /\ q.key = 0 /\ \A k \in Keys : store[k] = NoRecord
            /\ day = NowDay /\ minute <= NowMinute =>
                  /\ q.failed = "" /\ Called(q)
                  /\ q.evaluated = <<"retailer", "total", "pairs", "items", "date", "time">>

\* A receipt of today at the current minute, scored and handed to SetKey.
C18_Witness ==
    \E q \in WellFormed :
        /\ q.rec.PurchaseDate = Date(NowDay) /\ q.rec.PurchaseTime = Time(NowMinute)
        /\ q.failed = "" /\ q.value # << >> /\ q.outcomes # << >>

\* ---------------------------------------------------------------- the score

\* The contributions of the rules other than the item-description rule, as C19
\* lists them.
ClaimedOtherPoints(rec) ==
    Cardinality({i \in 1..Len(rec.Retailer) : IsLetter(rec.Retailer[i]) \/ IsDigit(rec.Retailer[i])})
    + calculateReceiptTotalPoints(rec.Total).points
    + (Len(rec.Items) \div 2) * 5
    + (IF rec.PurchaseDate.day % 2 = 1 THEN 6 ELSE 0)
    + (IF rec.PurchaseTime.minute > 14 * 60 /\ rec.PurchaseTime.minute < 16 * 60 THEN 10 ELSE 0)

\* The sum of the contributions, with the item-description points of the code.
ClaimedSum(rec) == Plus(IntOf(ClaimedOtherPoints(rec)), calculatePointsFromItems(rec.Items))

\* C19 as stated: for an accepted receipt the value given to SetKey is the
\* decimal string of the sum of the rule contributions, the total points are
\* 0, 25, 50 or 75, and the sum is not negative.
C19_ValueIsNonNegativeSum ==
    out # << >> /\ out[1].score.failed = "" =>
        /\ out[1].value = ItoaInt(ClaimedSum(arg))
        /\ calculateReceiptTotalPoints(arg.Total).points \in {0, 25, 50, 75}
        /\ ~IsNegativeInt(ClaimedSum(arg))
        /\ \A i \in 1..Len(out[1].value) : out[1].value[i] \in AsciiDigits

\* What holds of it: the value is the decimal string of the sum of the
\* contributions as an int, which wraps around.
ValueIsWrappedSum ==
    out # << >> /\ out[1].score.failed = "" =>
        /\ out[1].value = ItoaInt(ClaimedSum(arg))
        /\ calculateReceiptTotalPoints(arg.Total).points \in {0, 25, 50, 75}
        /\ ClaimedSum(arg).hi = 0 => Atoi(out[1].value).n = ClaimedSum(arg).lo

\* ------------------------------------------------- the identifier returned

\* The submissions whose handler has answered.
Answered == {q \in Requests : q.handler = "ProcessReceiptHandler" /\ q.pc = "done"}

\* C21: a submission is answered with an identifier only if SetKey returned nil
\* for that identifier.  When SetKey returned an error (a backend error, or the
\* retries exhausted), and when it was never called, the answer is the rejection
\* and carries no identifier; an identifier in an answer is the key SetKey was
\* given, its last attempt succeeded, and the backend was written under that key
\* with the decimal string of the receipt's score.
C21_IdentifierOnlyAfterStored ==
    \A q \in Answered :
        /\ q.ret # "ok" => q.resp = InvalidReceipt /\ q.resp.id = 0
        /\ q.resp.id # 0 =>
              /\ q.ret = "ok"
              /\ q.resp = IdResponse(q.key)
              /\ q.outcomes # << >> /\ q.outcomes[Len(q.outcomes)] = "ok"
              /\ q.value = ItoaInt(ScoreReceipt(q.rec).points)
              /\ store[q.key].present
              /\ store[q.key].setOk
              /\ store[q.key].val = q.value

\* One submission answered with its identifier, and another rejected after
\* SetKey failed although its first attempt reached the backend.
C21_Witness ==
    \E p, q \in Answered :
        /\ p.resp.id # 0
        /\ q.ret \in {"fatal", "unavailable"} /\ q.resp = InvalidReceipt
        /\ store[q.key].present

====
